---- MODULE Spec2Model ----
(***************************************************************************)
(* State-machine model of the project_scaffold package: the generation     *)
(* engine (ProjectGenerator.generate), the extension engine (add_router /  *)
(* add_model), the validator / inspector and the tool functions of         *)
(* server.py, acting on a filesystem.                                      *)
(*                                                                         *)
(* A path is a sequence of component strings (<<"w", "my-app">> is         *)
(* /w/my-app).  A name (project name, component name, database name) is a  *)
(* sequence of one-character strings, so that str.lower and str.replace    *)
(* are computed character by character; Str turns it into the string used  *)
(* as a path component.  An optional value (None | v) is <<>> | <<v>>.     *)
(* A Python dict is a record.                                              *)
(*                                                                         *)
(* A file write is one step: it either raises before the file is created   *)
(* (OSFault) or completes.  Rendered text is a black box: the content of a *)
(* rendered file is the identifier of the template it came from.           *)
(***************************************************************************)
EXTENDS Integers, Sequences, FiniteSets, TLC

VARIABLES
    files,      \* regular files on disk: path -> content
    dirs,       \* directories on disk: set of paths
    gen,        \* the create_project call in flight: <<>> or <<generator state>>
    last,       \* the last completed tool call: its name and outcome
    wanted,     \* the project this caller asks create_project for (location aside)
    adding      \* per server, its add_component call when calls may overlap

vars == <<files, dirs, gen, last, wanted, adding>>

----------------------------------------------------------------------------
(* Bounds *)

\* created_at timestamps are drawn from 1..MaxClock
MaxClock == 2

\* The owner of the filesystem deletes at most MaxRemoved generated files
MaxRemoved == 1

----------------------------------------------------------------------------
(* Strings *)

UpperAlpha ==
    <<"A","B","C","D","E","F","G","H","I","J","K","L","M",
      "N","O","P","Q","R","S","T","U","V","W","X","Y","Z">>

LowerAlpha ==
    <<"a","b","c","d","e","f","g","h","i","j","k","l","m",
      "n","o","p","q","r","s","t","u","v","w","x","y","z">>

\* Upper-case letter -> lower-case letter, and back
ToLower == [c \in {UpperAlpha[i] : i \in 1..26} |->
              LowerAlpha[CHOOSE i \in 1..26 : UpperAlpha[i] = c]]

ToUpper == [c \in {LowerAlpha[i] : i \in 1..26} |->
              UpperAlpha[CHOOSE i \in 1..26 : LowerAlpha[i] = c]]

lower_char(c) == IF c \in DOMAIN ToLower THEN ToLower[c] ELSE c

\* str.lower()
lower(s) == [i \in 1..Len(s) |-> lower_char(s[i])]

\* str.replace(old, new) for one-character old and new
replace(s, old, new) == [i \in 1..Len(s) |-> IF s[i] = old THEN new ELSE s[i]]

RECURSIVE Str(_)
Str(s) == IF s = <<>> THEN "" ELSE Head(s) \o Str(Tail(s))

None == <<>>
Some(v) == <<v>>

----------------------------------------------------------------------------
(* config.py *)

SCAFFOLD_METADATA_FILE == ".scaffold.json"

----------------------------------------------------------------------------
(* models.py: ProjectConfig *)

DefaultApiPort == 8000
DefaultFrontendPort == 3000

ProjectConfig(name, project_type, frontend_type, description, output_dir, use_current_dir, db_name, include_auth, include_alembic, api_port, frontend_port, include_tdd, include_redis, include_sse) ==
    [name |-> name, project_type |-> project_type, frontend_type |-> frontend_type,
     description |-> description, output_dir |-> output_dir,
     use_current_dir |-> use_current_dir, db_name |-> db_name,
     include_auth |-> include_auth, include_alembic |-> include_alembic,
     api_port |-> api_port, frontend_port |-> frontend_port,
     include_tdd |-> include_tdd, include_redis |-> include_redis,
     include_sse |-> include_sse]

\* self.db_name or self.name.replace("-", "_"): None and "" are both falsy
resolved_db_name(config) ==
    IF config.db_name # None /\ config.db_name[1] # <<>>
    THEN config.db_name[1]
    ELSE replace(config.name, "-", "_")

python_package_name(config) == replace(config.name, "-", "_")

is_multi_repo(config) == config.frontend_type = "react"

----------------------------------------------------------------------------
(* Filesystem (pathlib) *)

parent(p) == SubSeq(p, 1, Len(p) - 1)

IsPrefix(p, q) == Len(p) <= Len(q) /\ SubSeq(q, 1, Len(p)) = p

\* Path.relative_to(root)
relative_to(p, root) == SubSeq(p, Len(root) + 1, Len(p))

\* The state of the disk together with the generator's files_created list
World(f, d, created) == [files |-> f, dirs |-> d, created |-> created]

is_file(w, p) == p \in DOMAIN w.files
is_dir(w, p) == p \in w.dirs
exists(w, p) == is_file(w, p) \/ is_dir(w, p)

\* Mutant: every directory is taken to be empty
has_entries_Never(w, p) == FALSE

\* any(path.iterdir()) for a directory
has_entries(w, p) ==
    \E q \in (DOMAIN w.files) \cup w.dirs : Len(q) = Len(p) + 1 /\ IsPrefix(p, q)

\* Path.mkdir(parents=True, exist_ok=True)
mkdir_parents(w, p) ==
    [w EXCEPT !.dirs = @ \cup {SubSeq(p, 1, n) : n \in 1..Len(p)}]

\* Path.write_text(content): creates or truncates the file
write_text(w, p, content) ==
    [w EXCEPT !.files = [q \in (DOMAIN @) \cup {p} |-> IF q = p THEN content ELSE @[q]]]

\* Path.touch(): creates the file empty, leaves an existing file's content
touch(w, p) ==
    IF is_file(w, p) THEN w ELSE write_text(w, p, [kind |-> "empty"])

----------------------------------------------------------------------------
(* generator.py: ProjectGenerator *)

\* __init__: the generator is its configuration and the project root
ProjectGenerator(config) ==
    [config |-> config,
     project_root |-> IF config.use_current_dir
                      THEN config.output_dir
                      ELSE config.output_dir \o <<Str(config.name)>>]

\* _render(template_path): the template collaborator's text, identified by
\* the template
_render(template_path) == [kind |-> "rendered", template |-> template_path]

\* (TEMPLATES_DIR / ...).read_text(): a static asset copied verbatim
_static(asset_path) == [kind |-> "static", template |-> asset_path]

_write(w, g, output_path, content) ==
    LET w1 == mkdir_parents(w, parent(output_path))
        w2 == write_text(w1, output_path, content)
    IN  [w2 EXCEPT !.created = Append(@, relative_to(output_path, g.project_root))]

\* Mutant: an empty file is created without being recorded
_write_empty_Unrecorded(w, g, output_path) ==
    touch(mkdir_parents(w, parent(output_path)), output_path)

_write_empty(w, g, output_path) ==
    LET w1 == mkdir_parents(w, parent(output_path))
        w2 == touch(w1, output_path)
    IN  [w2 EXCEPT !.created = Append(@, relative_to(output_path, g.project_root))]

\* Mutant: the API tree of a multi-repo project is put in the project root
_api_root_Flat(g) == g.project_root

_api_root(g) ==
    IF is_multi_repo(g.config)
    THEN g.project_root \o <<Str(g.config.name) \o "-api">>
    ELSE g.project_root

_frontend_root(g) == g.project_root \o <<Str(g.config.name) \o "-frontend">>

(* The write steps of generate, in program order.  A step is              *)
(*   [op |-> "write", path, content]  for  self._write(path, content)      *)
(*   [op |-> "touch", path]           for  self._write_empty(path)         *)
(*   [op |-> "mkdir", path]           for  path.mkdir(parents, exist_ok)   *)
WriteStep(path, content) == [op |-> "write", path |-> path, content |-> content]
TouchStep(path) == [op |-> "touch", path |-> path, content |-> [kind |-> "empty"]]
MkdirStep(path) == [op |-> "mkdir", path |-> path, content |-> [kind |-> "empty"]]

\* for tmpl, out in pairs: self._write(base / out, self._render(tmpl))
RenderAll(base, pairs) ==
    [i \in 1..Len(pairs) |-> WriteStep(base \o <<pairs[i][2]>>, _render(pairs[i][1]))]

\* Mutant: one .gitignore, at the project root, whatever the topology
_generate_common_RootGitignore(g) ==
    RenderAll(g.project_root,
              << <<"common/README.md.j2", "README.md">>,
                 <<"common/env_example.j2", ".env.example">>,
                 <<"common/Makefile.j2", "Makefile">> >>)
    \o << WriteStep(g.project_root \o <<".gitignore">>, _render("common/gitignore.j2")) >>

_generate_common(g) ==
    RenderAll(g.project_root,
              << <<"common/README.md.j2", "README.md">>,
                 <<"common/env_example.j2", ".env.example">>,
                 <<"common/Makefile.j2", "Makefile">> >>)
    \o (IF is_multi_repo(g.config)
        THEN << WriteStep(_api_root(g) \o <<".gitignore">>, _render("common/gitignore.j2")),
                WriteStep(_frontend_root(g) \o <<".gitignore">>,
                          _render("common/gitignore_frontend.j2")) >>
        ELSE << WriteStep(g.project_root \o <<".gitignore">>, _render("common/gitignore.j2")) >>)

_generate_docker(g) ==
    RenderAll(g.project_root,
              << <<"docker/docker-compose.yml.j2", "docker-compose.yml">>,
                 <<"docker/docker-compose.override.yml.j2", "docker-compose.override.yml">> >>)

_generate_api(g) ==
    LET api_root == _api_root(g)
        app_dir == api_root \o <<"app">>
        models_dir == app_dir \o <<"models">>
        schemas_dir == app_dir \o <<"schemas">>
        routers_dir == app_dir \o <<"routers">>
        tests_dir == api_root \o <<"tests">>
    IN  RenderAll(api_root,
                  << <<"api/pyproject.toml.j2", "pyproject.toml">>,
                     <<"api/Dockerfile.j2", "Dockerfile">>,
                     <<"api/startup.sh.j2", "startup.sh">> >>)
        \o RenderAll(app_dir,
                  << <<"api/app/main.py.j2", "main.py">>,
                     <<"api/app/config.py.j2", "config.py">>,
                     <<"api/app/database.py.j2", "database.py">>,
                     <<"api/app/dependencies.py.j2", "dependencies.py">> >>)
        \o << TouchStep(app_dir \o <<"__init__.py">>) >>
        \o << TouchStep(models_dir \o <<"__init__.py">>) >>
        \o RenderAll(models_dir,
                  << <<"api/app/models/base.py.j2", "base.py">>,
                     <<"api/app/models/user.py.j2", "user.py">> >>)
        \o << TouchStep(schemas_dir \o <<"__init__.py">>) >>
        \o RenderAll(schemas_dir,
                  << <<"api/app/schemas/common.py.j2", "common.py">>,
                     <<"api/app/schemas/user.py.j2", "user.py">> >>)
        \o << TouchStep(routers_dir \o <<"__init__.py">>) >>
        \o RenderAll(routers_dir,
                  << <<"api/app/routers/health.py.j2", "health.py">>,
                     <<"api/app/routers/users.py.j2", "users.py">> >>)
        \o (IF g.config.include_sse
            THEN << WriteStep(routers_dir \o <<"sse.py">>, _render("api/app/routers/sse.py.j2")) >>
            ELSE << >>)
        \o << TouchStep(tests_dir \o <<"__init__.py">>) >>
        \o RenderAll(tests_dir,
                  << <<"api/tests/conftest.py.j2", "conftest.py">>,
                     <<"api/tests/test_health.py.j2", "test_health.py">> >>)

_generate_react_frontend(g) ==
    LET fe_root == _frontend_root(g)
        src_dir == fe_root \o <<"src">>
    IN  RenderAll(fe_root,
                  << <<"frontend/react/package.json.j2", "package.json">>,
                     <<"frontend/react/vite.config.ts.j2", "vite.config.ts">>,
                     <<"frontend/react/tsconfig.json.j2", "tsconfig.json">>,
                     <<"frontend/react/tsconfig.node.json.j2", "tsconfig.node.json">>,
                     <<"frontend/react/index.html.j2", "index.html">>,
                     <<"frontend/react/Dockerfile.j2", "Dockerfile">>,
                     <<"frontend/react/nginx.conf.j2", "nginx.conf">> >>)
        \o RenderAll(src_dir,
                  << <<"frontend/react/src/main.tsx.j2", "main.tsx">>,
                     <<"frontend/react/src/App.tsx.j2", "App.tsx">>,
                     <<"frontend/react/src/vite-env.d.ts.j2", "vite-env.d.ts">> >>)
        \o << WriteStep(src_dir \o <<"api", "client.ts">>,
                        _render("frontend/react/src/api/client.ts.j2")),
              WriteStep(src_dir \o <<"pages", "Home.tsx">>,
                        _render("frontend/react/src/pages/Home.tsx.j2")),
              WriteStep(src_dir \o <<"components", "Layout.tsx">>,
                        _render("frontend/react/src/components/Layout.tsx.j2")),
              WriteStep(src_dir \o <<"styles", "globals.css">>,
                        _render("frontend/react/src/styles/globals.css.j2")),
              MkdirStep(fe_root \o <<"public">>) >>

_generate_htmx_templates(g) ==
    LET api_root == _api_root(g)
        templates_dir == api_root \o <<"app", "templates">>
        static_dir == api_root \o <<"app", "static">>
    IN  RenderAll(templates_dir,
                  << <<"frontend/htmx/templates/base.html.j2", "base.html">>,
                     <<"frontend/htmx/templates/index.html.j2", "index.html">> >>)
        \o << WriteStep(templates_dir \o <<"partials", "user_list.html">>,
                        _render("frontend/htmx/templates/partials/user_list.html.j2")),
              WriteStep(templates_dir \o <<"partials", "user_form.html">>,
                        _render("frontend/htmx/templates/partials/user_form.html.j2")),
              WriteStep(static_dir \o <<"css", "style.css">>,
                        _render("frontend/htmx/static/css/style.css.j2")),
              WriteStep(api_root \o <<"app", "routers", "pages.py">>,
                        _render("api/app/routers/pages.py.j2")) >>

_generate_azure_cicd(g) ==
    LET api_workflows == _api_root(g) \o <<".github", "workflows">>
        fe_workflows == _frontend_root(g) \o <<".github", "workflows">>
    IN  << WriteStep(api_workflows \o <<"ci.yml">>, _render("cicd/azure/ci-api.yml.j2")) >>
        \o (IF g.config.frontend_type = "react"
            THEN << WriteStep(fe_workflows \o <<"ci.yml">>,
                              _render("cicd/azure/ci-frontend.yml.j2")),
                    WriteStep(fe_workflows \o <<"deploy.yml">>,
                              _render("cicd/azure/deploy-frontend.yml.j2")) >>
            ELSE << >>)

\* Mutant: the deployment blueprint is written into the API root
_generate_render_config_InApiRoot(g) ==
    << WriteStep(_api_root(g) \o <<"render.yaml">>, _render("cicd/render/render.yaml.j2")) >>

_generate_render_config(g) ==
    << WriteStep(g.project_root \o <<"render.yaml">>, _render("cicd/render/render.yaml.j2")) >>

_generate_alembic(g) ==
    LET api_root == _api_root(g)
        alembic_dir == api_root \o <<"alembic">>
    IN  << WriteStep(api_root \o <<"alembic.ini">>, _render("alembic/alembic.ini.j2")),
           WriteStep(alembic_dir \o <<"env.py">>, _render("alembic/env.py.j2")),
           WriteStep(alembic_dir \o <<"script.py.mako">>, _static("alembic/script.py.mako")),
           TouchStep(alembic_dir \o <<"versions", ".gitkeep">>) >>

\* Mutant: the auth routes are written over the SSE router's path
_generate_auth_RoutesAsSse(g) ==
    LET auth_dir == _api_root(g) \o <<"app", "auth">>
    IN  << TouchStep(auth_dir \o <<"__init__.py">>),
           WriteStep(auth_dir \o <<"jwt.py">>, _render("api/app/auth/jwt.py.j2")),
           WriteStep(_api_root(g) \o <<"app", "routers", "sse.py">>,
                     _render("api/app/auth/routes.py.j2")) >>

_generate_auth(g) ==
    LET auth_dir == _api_root(g) \o <<"app", "auth">>
    IN  << TouchStep(auth_dir \o <<"__init__.py">>),
           WriteStep(auth_dir \o <<"jwt.py">>, _render("api/app/auth/jwt.py.j2")),
           WriteStep(auth_dir \o <<"routes.py">>, _render("api/app/auth/routes.py.j2")) >>

\* Mutant: the guidelines document is written into the API root
_generate_claude_InApiRoot(g) ==
    << WriteStep(_api_root(g) \o <<"CLAUDE.md">>, _render("claude/CLAUDE.md.j2")) >>

_generate_claude(g) ==
    << WriteStep(g.project_root \o <<"CLAUDE.md">>, _render("claude/CLAUDE.md.j2")) >>

\* The dict _write_metadata serialises; created_at is the clock's reading
ScaffoldMeta(config, created_at) ==
    [scaffold_version |-> "0.1.0",
     project_name |-> config.name,
     project_type |-> config.project_type,
     frontend_type |-> config.frontend_type,
     description |-> config.description,
     db_name |-> resolved_db_name(config),
     include_auth |-> config.include_auth,
     include_alembic |-> config.include_alembic,
     api_port |-> config.api_port,
     frontend_port |-> config.frontend_port,
     use_current_dir |-> config.use_current_dir,
     include_tdd |-> config.include_tdd,
     include_redis |-> config.include_redis,
     include_sse |-> config.include_sse,
     created_at |-> created_at,
     components |-> << >>]

\* json.dumps(meta, indent=2) + "\n"
json_dumps(meta) == [kind |-> "json", meta |-> meta]

_write_metadata(g, created_at) ==
    << WriteStep(g.project_root \o <<SCAFFOLD_METADATA_FILE>>,
                 json_dumps(ScaffoldMeta(g.config, created_at))) >>

\* Mutant: the manifest is written before the AI guidelines document
GenerateSteps_ManifestEarly(g, created_at) ==
    _generate_common(g)
    \o _generate_docker(g)
    \o _generate_api(g)
    \o (IF g.config.frontend_type = "react"
        THEN _generate_react_frontend(g)
        ELSE _generate_htmx_templates(g))
    \o (IF g.config.project_type = "work"
        THEN _generate_azure_cicd(g)
        ELSE _generate_render_config(g))
    \o (IF g.config.include_alembic THEN _generate_alembic(g) ELSE << >>)
    \o (IF g.config.include_auth THEN _generate_auth(g) ELSE << >>)
    \o _write_metadata(g, created_at)
    \o _generate_claude(g)

\* The body of generate after the precondition checks (lines 137-172), as
\* the sequence of its write steps
GenerateSteps(g, created_at) ==
    _generate_common(g)
    \o _generate_docker(g)
    \o _generate_api(g)
    \o (IF g.config.frontend_type = "react"
        THEN _generate_react_frontend(g)
        ELSE _generate_htmx_templates(g))
    \o (IF g.config.project_type = "work"
        THEN _generate_azure_cicd(g)
        ELSE _generate_render_config(g))
    \o (IF g.config.include_alembic THEN _generate_alembic(g) ELSE << >>)
    \o (IF g.config.include_auth THEN _generate_auth(g) ELSE << >>)
    \o _generate_claude(g)
    \o _write_metadata(g, created_at)


\* _git_instructions: the next steps, each a command and the directory it
\* is to be run in (<<>> when the text names none)
_git_instructions(g) ==
    (IF is_multi_repo(g.config)
     THEN << [step |-> "git init", cd |-> g.project_root \o <<Str(g.config.name) \o "-api">>],
             [step |-> "git init", cd |-> g.project_root \o <<Str(g.config.name) \o "-frontend">>] >>
     ELSE IF g.config.use_current_dir
          THEN << [step |-> "git init", cd |-> << >>] >>
          ELSE << [step |-> "git init", cd |-> g.project_root] >>)
    \o << [step |-> "Copy .env.example to .env and fill in values", cd |-> << >>],
          [step |-> "Run 'make up' to start docker-compose", cd |-> << >>] >>
    \o (IF g.config.include_alembic
        THEN << [step |-> "Run 'make migration msg=\"initial\"' to create first migration", cd |-> << >>],
                [step |-> "Run 'make migrate' to apply migrations", cd |-> << >>] >>
        ELSE << >>)
    \o (IF g.config.project_type = "work"
        THEN << [step |-> "Link repo(s) to Azure App Service / Static Web Apps in the Azure portal", cd |-> << >>] >>
        ELSE << [step |-> "Connect repo to Render.com and use the render.yaml blueprint", cd |-> << >>] >>)

\* _expected_files: paths relative to the project root
_expected_files(g) ==
    LET api_prefix == IF is_multi_repo(g.config) THEN Str(g.config.name) \o "-api" ELSE ""
        fe_prefix == IF is_multi_repo(g.config) THEN Str(g.config.name) \o "-frontend" ELSE ""
        api(p) == IF api_prefix # "" THEN <<api_prefix>> \o p ELSE p
        fe(p) == IF fe_prefix # "" THEN <<fe_prefix>> \o p ELSE p
    IN  << <<SCAFFOLD_METADATA_FILE>>, <<"README.md">>, <<"CLAUDE.md">>, <<".env.example">>,
           <<"Makefile">>, <<"docker-compose.yml">>, <<"docker-compose.override.yml">> >>
        \o << api(<<".gitignore">>), api(<<"Dockerfile">>), api(<<"pyproject.toml">>),
              api(<<"startup.sh">>),
              api(<<"app", "__init__.py">>), api(<<"app", "main.py">>),
              api(<<"app", "config.py">>), api(<<"app", "database.py">>),
              api(<<"app", "dependencies.py">>),
              api(<<"app", "models", "__init__.py">>), api(<<"app", "models", "base.py">>),
              api(<<"app", "models", "user.py">>),
              api(<<"app", "schemas", "__init__.py">>), api(<<"app", "schemas", "common.py">>),
              api(<<"app", "schemas", "user.py">>),
              api(<<"app", "routers", "__init__.py">>), api(<<"app", "routers", "health.py">>),
              api(<<"app", "routers", "users.py">>),
              api(<<"tests", "__init__.py">>), api(<<"tests", "conftest.py">>),
              api(<<"tests", "test_health.py">>) >>
        \o (IF g.config.include_alembic
            THEN << api(<<"alembic.ini">>), api(<<"alembic", "env.py">>),
                    api(<<"alembic", "script.py.mako">>),
                    api(<<"alembic", "versions", ".gitkeep">>) >>
            ELSE << >>)
        \o (IF g.config.include_sse THEN << api(<<"app", "routers", "sse.py">>) >> ELSE << >>)
        \o (IF g.config.include_auth
            THEN << api(<<"app", "auth", "__init__.py">>), api(<<"app", "auth", "jwt.py">>),
                    api(<<"app", "auth", "routes.py">>) >>
            ELSE << >>)
        \o (IF g.config.frontend_type = "react"
            THEN << fe(<<".gitignore">>), fe(<<"Dockerfile">>), fe(<<"package.json">>),
                    fe(<<"vite.config.ts">>), fe(<<"tsconfig.json">>), fe(<<"index.html">>),
                    fe(<<"src", "main.tsx">>), fe(<<"src", "App.tsx">>) >>
            ELSE << api(<<"app", "templates", "base.html">>),
                    api(<<"app", "templates", "index.html">>),
                    api(<<"app", "routers", "pages.py">>) >>)
        \o (IF g.config.project_type = "work"
            THEN << api(<<".github", "workflows", "ci.yml">>) >>
                 \o (IF g.config.frontend_type = "react"
                     THEN << fe(<<".github", "workflows", "ci.yml">>),
                             fe(<<".github", "workflows", "deploy.yml">>) >>
                     ELSE << >>)
            ELSE << <<"render.yaml">> >>)

\* Mutant: total_expected counts the expected files that are present
validate_CountsPresent(w, g) ==
    LET expected == _expected_files(g)
        missing == SelectSeq(expected, LAMBDA f : ~exists(w, g.project_root \o f))
    IN  [status |-> IF missing = << >> THEN "valid" ELSE "invalid",
         project_root |-> g.project_root,
         total_expected |-> Len(expected) - Len(missing),
         missing_files |-> missing,
         missing_count |-> Len(missing)]

\* validate: the dict it returns
validate(w, g) ==
    LET expected == _expected_files(g)
        missing == SelectSeq(expected, LAMBDA f : ~exists(w, g.project_root \o f))
    IN  [status |-> IF missing = << >> THEN "valid" ELSE "invalid",
         project_root |-> g.project_root,
         total_expected |-> Len(expected),
         missing_files |-> missing,
         missing_count |-> Len(missing)]

\* json.loads(meta_path.read_text()) of a file json_dumps wrote
json_loads(content) == content.meta

\* info: the dict it returns
info(w, g) ==
    [project_root |-> g.project_root,
     config |-> json_loads(w.files[g.project_root \o <<SCAFFOLD_METADATA_FILE>>]),
     structure |-> IF is_multi_repo(g.config) THEN "multi-repo" ELSE "single-repo"]

\* Mutant: the manifest's db_name is not passed on to the configuration
from_existing_DropsDbName(meta, project_dir) ==
    ProjectGenerator(
        ProjectConfig(meta.project_name, meta.project_type, meta.frontend_type,
                      meta.description,
                      IF meta.use_current_dir THEN project_dir ELSE parent(project_dir),
                      meta.use_current_dir, None,
                      meta.include_auth, meta.include_alembic,
                      meta.api_port, meta.frontend_port,
                      meta.include_tdd, meta.include_redis, meta.include_sse))

\* from_existing, past the existence check: the generator rebuilt from the
\* manifest dict.  Every key is present in a manifest _write_metadata wrote,
\* so no meta.get default applies.
from_existing(meta, project_dir) ==
    ProjectGenerator(
        ProjectConfig(meta.project_name, meta.project_type, meta.frontend_type,
                      meta.description,
                      IF meta.use_current_dir THEN project_dir ELSE parent(project_dir),
                      meta.use_current_dir, Some(meta.db_name),
                      meta.include_auth, meta.include_alembic,
                      meta.api_port, meta.frontend_port,
                      meta.include_tdd, meta.include_redis, meta.include_sse))


----------------------------------------------------------------------------
(* renderers/api.py: the extension engine *)

upper_char(c) == IF c \in DOMAIN ToUpper THEN ToUpper[c] ELSE c

\* str.capitalize()
capitalize(s) ==
    [i \in 1..Len(s) |-> IF i = 1 THEN upper_char(s[i]) ELSE lower_char(s[i])]

\* config.fields or {}: fields is None or a dict, a dict is the sequence of
\* its (name, type) items
fields_or_empty(fields) == IF fields = None THEN << >> ELSE fields[1]

\* The generated texts, identified by what they are computed from.  The
\* router text reads neither fields nor include_auth.
_generate_model(name, fields) ==
    [kind |-> "model", class_name |-> capitalize(name), tablename |-> name \o <<"s">>,
     fields |-> fields]

_generate_schema(name, fields) ==
    [kind |-> "schema", class_name |-> capitalize(name), fields |-> fields]

_generate_router(name, fields, include_auth) ==
    [kind |-> "router", class_name |-> capitalize(name), name |-> name]

\* Mutant: the components list is rewritten with the new entry alone
_update_metadata_Rewrites(w, project_root, component_type, name) ==
    LET meta_path == project_root \o <<SCAFFOLD_METADATA_FILE>>
    IN  IF exists(w, meta_path)
        THEN LET meta == json_loads(w.files[meta_path])
                 meta2 == [meta EXCEPT !.components =
                              << [type |-> component_type, name |-> name] >>]
             IN  write_text(w, meta_path, json_dumps(meta2))
        ELSE w

\* Mutant: the entry is appended to the parsed manifest and never written
_update_metadata_NoWrite(w, project_root, component_type, name) == w

_update_metadata(w, project_root, component_type, name) ==
    LET meta_path == project_root \o <<SCAFFOLD_METADATA_FILE>>
    IN  IF exists(w, meta_path)
        THEN LET meta == json_loads(w.files[meta_path])
                 meta2 == [meta EXCEPT !.components =
                              Append(@, [type |-> component_type, name |-> name])]
             IN  write_text(w, meta_path, json_dumps(meta2))
        ELSE w

\* Mutant: the model file is written without the existence check
add_model_NoExistsCheck(w, g, config) ==
    LET api_root == _api_root(g)
        name == lower(config.name)
        fields == fields_or_empty(config.fields)
        model_path == api_root \o <<"app", "models", Str(name) \o ".py">>
        schema_path == api_root \o <<"app", "schemas", Str(name) \o ".py">>
        w1 == _write(w, g, model_path, _generate_model(name, fields))
        w2 == IF ~exists(w1, schema_path)
              THEN _write(w1, g, schema_path, _generate_schema(name, fields))
              ELSE w1
        w3 == _update_metadata(w2, g.project_root, "db_model", name)
    IN  [world |-> w3,
         result |-> [status |-> "success", component |-> "db_model",
                     name |-> name, files_created |-> w3.created,
                     next_steps |-> <<"import the model in alembic/env.py",
                                      "make migration", "make migrate">>]]

\* Mutant: the schema is left for a later router call to write
add_model_NoSchema(w, g, config) ==
    LET api_root == _api_root(g)
        name == lower(config.name)
        fields == fields_or_empty(config.fields)
        model_path == api_root \o <<"app", "models", Str(name) \o ".py">>
    IN  IF exists(w, model_path)
        THEN [world |-> w,
              result |-> [status |-> "error", message |-> "Model already exists"]]
        ELSE LET w1 == _write(w, g, model_path, _generate_model(name, fields))
                 w3 == _update_metadata(w1, g.project_root, "db_model", name)
             IN  [world |-> w3,
                  result |-> [status |-> "success", component |-> "db_model",
                              name |-> name, files_created |-> w3.created,
                              next_steps |-> <<"import the model in alembic/env.py",
                                               "make migration", "make migrate">>]]

\* add_model and add_router return [world, result]: the disk (and
\* files_created) they leave and the dict they return
add_model(w, g, config) ==
    LET api_root == _api_root(g)
        name == lower(config.name)
        fields == fields_or_empty(config.fields)
        model_path == api_root \o <<"app", "models", Str(name) \o ".py">>
        schema_path == api_root \o <<"app", "schemas", Str(name) \o ".py">>
    IN  IF exists(w, model_path)
        THEN [world |-> w,
              result |-> [status |-> "error", message |-> "Model already exists"]]
        ELSE LET w1 == _write(w, g, model_path, _generate_model(name, fields))
                 w2 == IF ~exists(w1, schema_path)
                       THEN _write(w1, g, schema_path, _generate_schema(name, fields))
                       ELSE w1
                 w3 == _update_metadata(w2, g.project_root, "db_model", name)
             IN  [world |-> w3,
                  result |-> [status |-> "success", component |-> "db_model",
                              name |-> name, files_created |-> w3.created,
                              next_steps |-> <<"import the model in alembic/env.py",
                                               "make migration", "make migrate">>]]

\* Mutant: the schema of a router without fields is written even when a
\* schema file of that name exists
add_router_tail_SchemaAlways(w, g, config) ==
    LET api_root == _api_root(g)
        name == lower(config.name)
        fields == fields_or_empty(config.fields)
        router_path == api_root \o <<"app", "routers", Str(name) \o ".py">>
        schema_path == api_root \o <<"app", "schemas", Str(name) \o ".py">>
    IN  IF exists(w, router_path)
        THEN [world |-> w,
              result |-> [status |-> "error", message |-> "Router already exists"]]
        ELSE LET w1 == _write(w, g, router_path,
                              _generate_router(name, fields, g.config.include_auth))
                 w2 == IF fields = << >>
                       THEN _write(w1, g, schema_path, _generate_schema(name, fields))
                       ELSE w1
                 w3 == _update_metadata(w2, g.project_root, "api_router", name)
             IN  [world |-> w3,
                  result |-> [status |-> "success", component |-> "api_router",
                              name |-> name, files_created |-> w3.created,
                              next_steps |-> <<"import the router in app/main.py",
                                               "include the router in app/main.py">>]]

\* Mutant: a schema found on disk is unlinked to be regenerated, and is not
add_router_tail_UnlinksSchema(w, g, config) ==
    LET api_root == _api_root(g)
        name == lower(config.name)
        fields == fields_or_empty(config.fields)
        router_path == api_root \o <<"app", "routers", Str(name) \o ".py">>
        schema_path == api_root \o <<"app", "schemas", Str(name) \o ".py">>
    IN  IF exists(w, router_path)
        THEN [world |-> w,
              result |-> [status |-> "error", message |-> "Router already exists"]]
        ELSE LET w1 == _write(w, g, router_path,
                              _generate_router(name, fields, g.config.include_auth))
                 w2 == IF fields = << >>
                       THEN IF exists(w1, schema_path)
                            THEN [w1 EXCEPT !.files =
                                     [q \in (DOMAIN @) \ {schema_path} |-> @[q]]]
                            ELSE _write(w1, g, schema_path, _generate_schema(name, fields))
                       ELSE w1
                 w3 == _update_metadata(w2, g.project_root, "api_router", name)
             IN  [world |-> w3,
                  result |-> [status |-> "success", component |-> "api_router",
                              name |-> name, files_created |-> w3.created,
                              next_steps |-> <<"import the router in app/main.py",
                                               "include the router in app/main.py">>]]

\* Mutant: a router without fields gets no schema file
add_router_tail_NoSchema(w, g, config) ==
    LET api_root == _api_root(g)
        name == lower(config.name)
        fields == fields_or_empty(config.fields)
        router_path == api_root \o <<"app", "routers", Str(name) \o ".py">>
    IN  IF exists(w, router_path)
        THEN [world |-> w,
              result |-> [status |-> "error", message |-> "Router already exists"]]
        ELSE LET w1 == _write(w, g, router_path,
                              _generate_router(name, fields, g.config.include_auth))
                 w3 == _update_metadata(w1, g.project_root, "api_router", name)
             IN  [world |-> w3,
                  result |-> [status |-> "success", component |-> "api_router",
                              name |-> name, files_created |-> w3.created,
                              next_steps |-> <<"import the router in app/main.py",
                                               "include the router in app/main.py">>]]

\* add_router from the router step on (lines 26-53)
add_router_tail(w, g, config) ==
    LET api_root == _api_root(g)
        name == lower(config.name)
        fields == fields_or_empty(config.fields)
        router_path == api_root \o <<"app", "routers", Str(name) \o ".py">>
        schema_path == api_root \o <<"app", "schemas", Str(name) \o ".py">>
    IN  IF exists(w, router_path)
        THEN [world |-> w,
              result |-> [status |-> "error", message |-> "Router already exists"]]
        ELSE LET w1 == _write(w, g, router_path,
                              _generate_router(name, fields, g.config.include_auth))
                 w2 == IF fields = << >> /\ ~exists(w1, schema_path)
                       THEN _write(w1, g, schema_path, _generate_schema(name, fields))
                       ELSE w1
                 w3 == _update_metadata(w2, g.project_root, "api_router", name)
             IN  [world |-> w3,
                  result |-> [status |-> "success", component |-> "api_router",
                              name |-> name, files_created |-> w3.created,
                              next_steps |-> <<"import the router in app/main.py",
                                               "include the router in app/main.py">>]]

\* Mutant: the router step runs whatever the model step returned
add_router_IgnoresModelError(w, g, config) ==
    IF fields_or_empty(config.fields) # << >>
    THEN add_router_tail(add_model(w, g, config).world, g, config)
    ELSE add_router_tail(w, g, config)

\* Mutant: the router is recorded in the manifest before the model
add_router_RouterFirst(w, g, config) ==
    IF fields_or_empty(config.fields) # << >>
    THEN LET r == add_router_tail(w, g, config)
         IN  IF r.result.status = "error" THEN r ELSE add_model(r.world, g, config)
    ELSE add_router_tail(w, g, config)

add_router(w, g, config) ==
    IF fields_or_empty(config.fields) # << >>
    THEN LET r == add_model(w, g, config)
         IN  IF r.result.status = "error" THEN r ELSE add_router_tail(r.world, g, config)
    ELSE add_router_tail(w, g, config)

\* Mutant: a kind that is not api_router is taken to be db_model
generator_add_component_NoDefault(w, g, component_config) ==
    IF component_config.component = "api_router"
    THEN add_router(w, g, component_config)
    ELSE add_model(w, g, component_config)

\* ProjectGenerator.add_component
generator_add_component(w, g, component_config) ==
    IF component_config.component = "api_router"
    THEN add_router(w, g, component_config)
    ELSE IF component_config.component = "db_model"
    THEN add_model(w, g, component_config)
    ELSE [world |-> w,
          result |-> [status |-> "error", message |-> "not yet implemented"]]


----------------------------------------------------------------------------
(* Inputs *)

Workspace == <<"w">>
Target == <<"w", "my-app">>

MyApp == <<"m", "y", "-", "a", "p", "p">>
Acme == <<"a", "c", "m", "e">>

\* (output_dir, use_current_dir, name) triples whose project root is Target
Locations ==
    { [output_dir |-> Workspace, use_current_dir |-> FALSE, name |-> MyApp],
      [output_dir |-> Target, use_current_dir |-> TRUE, name |-> MyApp],
      [output_dir |-> Target, use_current_dir |-> TRUE, name |-> Acme] }

DbNames == { None, Some(<<"d", "b">>) }

\* What a caller asks for: every field of ProjectConfig but the location
AllWanted ==
    [project_type : {"work", "personal"}, frontend_type : {"react", "htmx"},
     description : {"demo"}, db_name : DbNames,
     include_auth : BOOLEAN, include_alembic : BOOLEAN,
     api_port : {DefaultApiPort}, frontend_port : {DefaultFrontendPort},
     include_tdd : BOOLEAN, include_redis : BOOLEAN, include_sse : BOOLEAN]

\* The projects the extension engine is exercised on: the fields it never
\* reads are left at their defaults
ExtWanted ==
    { c \in AllWanted : /\ c.project_type = "personal"
                        /\ c.db_name = None
                        /\ c.include_alembic
                        /\ ~c.include_tdd /\ ~c.include_redis /\ ~c.include_sse }

\* The projects generation is interrupted on: every field the file plan reads
FaultWanted ==
    { c \in AllWanted : c.db_name = None /\ ~c.include_tdd /\ ~c.include_redis }

\* The projects inspected after their owner deleted files: one per topology
\* and deployment target
InspectWanted ==
    { c \in AllWanted : /\ c.db_name = None
                        /\ c.include_auth /\ c.include_alembic
                        /\ ~c.include_tdd /\ ~c.include_redis /\ ~c.include_sse }

\* The ProjectConfig a create_project call submits
ConfigAt(c, l) ==
    ProjectConfig(l.name, c.project_type, c.frontend_type, c.description,
                  l.output_dir, l.use_current_dir, c.db_name,
                  c.include_auth, c.include_alembic, c.api_port, c.frontend_port,
                  c.include_tdd, c.include_redis, c.include_sse)

ComponentKinds ==
    {"api_router", "db_model", "frontend_page", "github_action", "docker_service"}

Widget == <<"W", "i", "d", "g", "e", "t">>
User == <<"u", "s", "e", "r">>

ComponentNames == {Widget, User}

FieldInputs ==
    { None, Some(<< >>), Some(<< <<"title", "string">>, <<"price", "float">> >>) }

\* The requests: every name and fields for the two implemented kinds, one
\* request for each of the others
ComponentConfigs ==
    [project_dir : {Target}, component : {"api_router", "db_model"},
     name : ComponentNames, fields : FieldInputs]
    \cup [project_dir : {Target},
          component : ComponentKinds \ {"api_router", "db_model"},
          name : {Widget}, fields : {None}]

ProjectDirs == {Target}

Clock == 1..MaxClock

Foreign == [kind |-> "foreign"]

----------------------------------------------------------------------------
(* server.py: the tools *)

\* A call's outcome: the dict it returned, or the exception it raised; NoCall
\* while no call has completed or create_project is in flight
NoCall == [op |-> "none", raised |-> "", value |-> << >>]

Returned(op, value) == [op |-> op, raised |-> "", value |-> value]
Raised(op, exc) == [op |-> op, raised |-> exc, value |-> << >>]

Disk == World(files, dirs, << >>)

\* The servers that may work on one project root at a time, each a process
\* of its own with no lock between them
Callers == {"a", "b"}

\* An add_component call of a server: where it stands (pc), the request, the
\* generator from_existing built, its files_created, the manifest text it
\* has read, the dict it returned, and whether it ran while another call
\* was in flight
NotCalled ==
    [pc |-> "idle", config |-> None, generator |-> None, created |-> << >>,
     meta |-> None, result |-> None, overlapped |-> FALSE]

InitDisk ==
    /\ gen = << >>
    /\ last = NoCall
    /\ adding = [c \in Callers |-> NotCalled]
    /\ \/ dirs = {Workspace} /\ files = << >>
       \/ dirs = {Workspace} /\ files = (Target :> Foreign)
       \/ dirs = {Workspace, Target} /\ files = << >>
       \/ dirs = {Workspace, Target} /\ files = (Target \o <<"notes.txt">> :> Foreign)

Init == InitDisk /\ wanted \in ExtWanted

InitGenerate == InitDisk /\ wanted \in AllWanted

InitFault == InitDisk /\ wanted \in FaultWanted

InitInspect == InitDisk /\ wanted \in InspectWanted

\* create_project up to the first write: ProjectGenerator(config), then the
\* precondition checks of generate (lines 115-135)
create_project(config) ==
    /\ gen = << >>
    /\ LET g == ProjectGenerator(config)
           start == << [generator |-> g, created |-> << >>, pc |-> 1] >>
           error(msg) ==
               /\ last' = Returned("create_project", [status |-> "error", message |-> msg])
               /\ UNCHANGED <<files, dirs, gen>>
       IN  IF config.use_current_dir
           THEN IF ~exists(Disk, g.project_root)
                THEN error("Directory does not exist")
                ELSE IF ~is_dir(Disk, g.project_root)
                THEN /\ last' = Raised("create_project", "NotADirectoryError")
                     /\ UNCHANGED <<files, dirs, gen>>
                ELSE IF has_entries(Disk, g.project_root)
                THEN error("Directory is not empty")
                ELSE /\ gen' = start
                     /\ last' = NoCall
                     /\ UNCHANGED <<files, dirs>>
           ELSE IF exists(Disk, g.project_root)
                THEN error("Directory already exists")
                ELSE /\ dirs' = mkdir_parents(Disk, g.project_root).dirs
                     /\ gen' = start
                     /\ last' = NoCall
                     /\ UNCHANGED files
    /\ UNCHANGED <<wanted, adding>>

\* One write step of the generate call in flight
ApplyStep(w, g, step) ==
    IF step.op = "write" THEN _write(w, g, step.path, step.content)
    ELSE IF step.op = "touch" THEN _write_empty(w, g, step.path)
    ELSE mkdir_parents(w, step.path)

create_project_step ==
    /\ gen # << >>
    /\ \E created_at \in Clock :
        LET g == gen[1].generator
            steps == GenerateSteps(g, created_at)
            w == ApplyStep(World(files, dirs, gen[1].created), g, steps[gen[1].pc])
        IN  /\ gen[1].pc <= Len(steps)
            /\ files' = w.files
            /\ dirs' = w.dirs
            /\ gen' = << [gen[1] EXCEPT !.created = w.created, !.pc = @ + 1] >>
            /\ UNCHANGED <<last, wanted, adding>>

\* A write of the generate call in flight raises (disk full, permission
\* denied): generate catches nothing, the fault reaches the caller
create_project_fault ==
    /\ gen # << >>
    /\ gen[1].pc <= Len(GenerateSteps(gen[1].generator, 1))
    /\ last' = Raised("create_project", "OSError")
    /\ gen' = << >>
    /\ UNCHANGED <<files, dirs, wanted, adding>>

\* generate returns its summary (lines 175-183)
create_project_return ==
    /\ gen # << >>
    /\ gen[1].pc > Len(GenerateSteps(gen[1].generator, 1))
    /\ last' = Returned("create_project",
                        [status |-> "success",
                         project_root |-> gen[1].generator.project_root,
                         files_created |-> Len(gen[1].created),
                         file_list |-> gen[1].created,
                         next_steps |-> _git_instructions(gen[1].generator)])
    /\ gen' = << >>
    /\ UNCHANGED <<files, dirs, wanted, adding>>

\* from_existing raises FileNotFoundError when the manifest is absent
has_manifest(w, project_dir) == exists(w, project_dir \o <<SCAFFOLD_METADATA_FILE>>)

read_manifest(w, project_dir) ==
    json_loads(w.files[project_dir \o <<SCAFFOLD_METADATA_FILE>>])

add_component(config) ==
    /\ gen = << >>
    /\ IF ~has_manifest(Disk, config.project_dir)
       THEN /\ last' = Raised("add_component", "FileNotFoundError")
            /\ UNCHANGED <<files, dirs>>
       ELSE LET g == from_existing(read_manifest(Disk, config.project_dir), config.project_dir)
            IN  \E r \in {generator_add_component(Disk, g, config)} :
                    /\ last' = Returned("add_component", r.result)
                    /\ files' = r.world.files
                    /\ dirs' = r.world.dirs
    /\ UNCHANGED <<gen, wanted, adding>>

validate_project(project_dir) ==
    /\ gen = << >>
    /\ IF ~has_manifest(Disk, project_dir)
       THEN last' = Raised("validate_project", "FileNotFoundError")
       ELSE last' = Returned("validate_project",
                             validate(Disk, from_existing(read_manifest(Disk, project_dir),
                                                          project_dir)))
    /\ UNCHANGED <<files, dirs, gen, wanted, adding>>

get_project_info(project_dir) ==
    /\ gen = << >>
    /\ IF ~has_manifest(Disk, project_dir)
       THEN last' = Raised("get_project_info", "FileNotFoundError")
       ELSE last' = Returned("get_project_info",
                             info(Disk, from_existing(read_manifest(Disk, project_dir),
                                                      project_dir)))
    /\ UNCHANGED <<files, dirs, gen, wanted, adding>>

\* The catalog list_templates returns: one entry per (project_type,
\* frontend_type), and the defaults
TemplateCatalog ==
    [combinations |->
        << [project_type |-> "work", frontend_type |-> "react",
            structure |-> "2 separate git repos in 1 workspace"],
           [project_type |-> "work", frontend_type |-> "htmx",
            structure |-> "Single git repo"],
           [project_type |-> "personal", frontend_type |-> "react",
            structure |-> "2 separate git repos in 1 workspace"],
           [project_type |-> "personal", frontend_type |-> "htmx",
            structure |-> "Single git repo"] >>,
     defaults |-> [api_framework |-> "FastAPI", migrations |-> "Alembic (optional)",
                   auth |-> "JWT authentication (optional)"]]

list_templates ==
    /\ gen = << >>
    /\ last' = Returned("list_templates", TemplateCatalog)
    /\ UNCHANGED <<files, dirs, gen, wanted, adding>>

\* The questions configure_project returns, by id
ProjectQuestions ==
    [instructions |-> "Present these questions to the user to configure their new project.",
     questions |-> <<"name", "description", "output_dir", "frontend_type", "project_type",
                     "include_auth", "include_alembic", "include_tdd", "include_redis",
                     "include_sse">>]

configure_project ==
    /\ gen = << >>
    /\ last' = Returned("configure_project", ProjectQuestions)
    /\ UNCHANGED <<files, dirs, gen, wanted, adding>>

----------------------------------------------------------------------------
(* Specifications *)

\* Generation and inspection over every configuration, no write faulting
NextGenerate ==
    \/ \E l \in Locations : create_project(ConfigAt(wanted, l))
    \/ create_project_step
    \/ create_project_return
    \/ \E project_dir \in ProjectDirs : validate_project(project_dir)
    \/ \E project_dir \in ProjectDirs : get_project_info(project_dir)

SpecGenerate == InitGenerate /\ [][NextGenerate]_vars

\* Generation with writes that may fault, and validation
NextFault ==
    \/ \E l \in Locations : create_project(ConfigAt(wanted, l))
    \/ create_project_step
    \/ create_project_fault
    \/ create_project_return
    \/ \E project_dir \in ProjectDirs : validate_project(project_dir)

SpecFault == InitFault /\ [][NextFault]_vars

\* The files of the project at Target that its manifest's configuration
\* plans and the disk no longer holds
RemovedFiles ==
    LET meta == json_loads(files[Target \o <<SCAFFOLD_METADATA_FILE>>])
        g == from_existing(meta, Target)
        steps == GenerateSteps(g, meta.created_at)
    IN  { steps[i].path : i \in {j \in DOMAIN steps : steps[j].op # "mkdir"} } \ DOMAIN files

\* The owner of the filesystem deletes one file of a generated project,
\* between two tool calls
owner_removes_file ==
    /\ gen = << >>
    /\ has_manifest(Disk, Target)
    /\ Cardinality(RemovedFiles) < MaxRemoved
    /\ \E p \in DOMAIN files : files' = [q \in (DOMAIN files) \ {p} |-> files[q]]
    /\ last' = NoCall
    /\ UNCHANGED <<dirs, gen, wanted, adding>>

\* Generation, then inspection of a project that may have lost files
NextInspect ==
    \/ \E l \in Locations : create_project(ConfigAt(wanted, l))
    \/ create_project_step
    \/ create_project_return
    \/ owner_removes_file
    \/ \E project_dir \in ProjectDirs : validate_project(project_dir)
    \/ \E project_dir \in ProjectDirs : get_project_info(project_dir)

SpecInspect == InitInspect /\ [][NextInspect]_vars

\* All six tools, on the projects of ExtWanted
Next ==
    \/ \E l \in Locations : create_project(ConfigAt(wanted, l))
    \/ create_project_step
    \/ create_project_fault
    \/ create_project_return
    \/ \E config \in ComponentConfigs : add_component(config)
    \/ \E project_dir \in ProjectDirs : validate_project(project_dir)
    \/ \E project_dir \in ProjectDirs : get_project_info(project_dir)
    \/ list_templates
    \/ configure_project

Spec == Init /\ [][Next]_vars

----------------------------------------------------------------------------
(* Two servers extending one project root: add_component for a db_model,
   one filesystem call of add_model and _update_metadata per step. Nothing
   in api.py or generator.py takes a lock, so the steps of the two calls
   interleave freely. *)

Gadget == <<"G", "a", "d", "g", "e", "t">>

\* The project the two servers share
RaceWanted ==
    { c \in ExtWanted : c.frontend_type = "htmx" /\ ~c.include_auth }

\* The db_model requests the two servers send
RaceConfigs ==
    [project_dir : {Target}, component : {"db_model"}, name : {Widget, Gadget},
     fields : {Some(<< <<"title", "string">>, <<"price", "float">> >>)}]

InitRace == InitDisk /\ wanted \in RaceWanted

InFlight(call) == call.pc \notin {"idle", "done"}

model_path_of(call) ==
    _api_root(call.generator[1])
        \o <<"app", "models", Str(lower(call.config[1].name)) \o ".py">>

schema_path_of(call) ==
    _api_root(call.generator[1])
        \o <<"app", "schemas", Str(lower(call.config[1].name)) \o ".py">>

\* server.add_component: from_existing reads the manifest (or raises), then
\* generator.add_component dispatches to add_model
adding_from_existing(c, config) ==
    /\ gen = << >>
    /\ adding[c].pc = "idle"
    /\ IF ~has_manifest(Disk, config.project_dir)
       THEN /\ last' = Raised("add_component", "FileNotFoundError")
            /\ adding' = [adding EXCEPT ![c].pc = "done"]
       ELSE LET g == from_existing(read_manifest(Disk, config.project_dir),
                                   config.project_dir)
                others == {d \in Callers \ {c} : InFlight(adding[d])}
            IN  /\ adding' = [d \in Callers |->
                                IF d = c
                                THEN [NotCalled EXCEPT !.pc = "model_exists",
                                                       !.config = Some(config),
                                                       !.generator = Some(g),
                                                       !.overlapped = others # {}]
                                ELSE IF d \in others
                                     THEN [adding[d] EXCEPT !.overlapped = TRUE]
                                     ELSE adding[d]]
                /\ UNCHANGED last
    /\ UNCHANGED <<files, dirs, gen, wanted>>

\* add_model, lines 64-65: model_path.exists()
adding_model_exists(c) ==
    /\ adding[c].pc = "model_exists"
    /\ IF exists(Disk, model_path_of(adding[c]))
       THEN LET result == [status |-> "error", message |-> "Model already exists"]
            IN  /\ adding' = [adding EXCEPT ![c].pc = "done", ![c].result = Some(result)]
                /\ last' = Returned("add_component", result)
       ELSE /\ adding' = [adding EXCEPT ![c].pc = "write_model"]
            /\ UNCHANGED last
    /\ UNCHANGED <<files, dirs, gen, wanted>>

\* add_model, lines 67-68: the model file is written
adding_write_model(c) ==
    /\ adding[c].pc = "write_model"
    /\ LET call == adding[c]
           w == _write(World(files, dirs, call.created), call.generator[1],
                       model_path_of(call),
                       _generate_model(lower(call.config[1].name),
                                       fields_or_empty(call.config[1].fields)))
       IN  /\ files' = w.files
           /\ dirs' = w.dirs
           /\ adding' = [adding EXCEPT ![c].pc = "schema_exists", ![c].created = w.created]
    /\ UNCHANGED <<gen, last, wanted>>

\* add_model, line 72: schema_path.exists()
adding_schema_exists(c) ==
    /\ adding[c].pc = "schema_exists"
    /\ adding' = [adding EXCEPT ![c].pc =
                      IF exists(Disk, schema_path_of(adding[c]))
                      THEN "read_meta" ELSE "write_schema"]
    /\ UNCHANGED <<files, dirs, gen, last, wanted>>

\* add_model, lines 73-74: the schema file is written
adding_write_schema(c) ==
    /\ adding[c].pc = "write_schema"
    /\ LET call == adding[c]
           w == _write(World(files, dirs, call.created), call.generator[1],
                       schema_path_of(call),
                       _generate_schema(lower(call.config[1].name),
                                        fields_or_empty(call.config[1].fields)))
       IN  /\ files' = w.files
           /\ dirs' = w.dirs
           /\ adding' = [adding EXCEPT ![c].pc = "read_meta", ![c].created = w.created]
    /\ UNCHANGED <<gen, last, wanted>>

\* The dict add_model returns, lines 79-89
model_added(call) ==
    [status |-> "success", component |-> "db_model",
     name |-> lower(call.config[1].name), files_created |-> call.created,
     next_steps |-> <<"import the model in alembic/env.py",
                      "make migration", "make migrate">>]

\* _update_metadata, lines 259-260: meta_path.exists() and read_text()
adding_read_meta(c) ==
    /\ adding[c].pc = "read_meta"
    /\ LET call == adding[c]
           meta_path == call.generator[1].project_root \o <<SCAFFOLD_METADATA_FILE>>
       IN  IF exists(Disk, meta_path)
           THEN /\ adding' = [adding EXCEPT ![c].pc = "write_meta",
                                            ![c].meta = Some(files[meta_path])]
                /\ UNCHANGED last
           ELSE /\ adding' = [adding EXCEPT ![c].pc = "done",
                                            ![c].result = Some(model_added(call))]
                /\ last' = Returned("add_component", model_added(call))
    /\ UNCHANGED <<files, dirs, gen, wanted>>

\* _update_metadata, lines 261-267: the entry is appended to the text that
\* was read and the result written over the manifest; add_model returns
adding_write_meta(c) ==
    /\ adding[c].pc = "write_meta"
    /\ LET call == adding[c]
           root == call.generator[1].project_root
           meta_path == root \o <<SCAFFOLD_METADATA_FILE>>
           as_read == World((meta_path :> call.meta[1]) @@ files, dirs, call.created)
           w == _update_metadata(as_read, root, "db_model", lower(call.config[1].name))
       IN  /\ files' = w.files
           /\ dirs' = w.dirs
           /\ adding' = [adding EXCEPT ![c].pc = "done",
                                       ![c].result = Some(model_added(call))]
           /\ last' = Returned("add_component", model_added(call))
    /\ UNCHANGED <<gen, wanted>>

NextRace ==
    \/ \E l \in Locations : create_project(ConfigAt(wanted, l))
    \/ create_project_step
    \/ create_project_return
    \/ \E c \in Callers : \E config \in RaceConfigs : adding_from_existing(c, config)
    \/ \E c \in Callers : adding_model_exists(c)
    \/ \E c \in Callers : adding_write_model(c)
    \/ \E c \in Callers : adding_schema_exists(c)
    \/ \E c \in Callers : adding_write_schema(c)
    \/ \E c \in Callers : adding_read_meta(c)
    \/ \E c \in Callers : adding_write_meta(c)

SpecRace == InitRace /\ [][NextRace]_vars


----------------------------------------------------------------------------
(* Claims *)

Range(seq) == {seq[i] : i \in 1..Len(seq)}

ManifestPath == Target \o <<SCAFFOLD_METADATA_FILE>>

\* The generator from_existing rebuilds from the manifest at Target
Rebuilt == from_existing(read_manifest(Disk, Target), Target)

GenerateSucceeded ==
    /\ last.op = "create_project"
    /\ last.raised = ""
    /\ last.value.status = "success"

\* C1: a validate_project call made right after create_project returned
\* success returns status valid with missing_count 0, and every path of the
\* validator's expected-file list is in the file list generate returned.
C1_ValidateAfterGenerate ==
    [][(GenerateSucceeded /\ last'.op = "validate_project")
        => /\ last'.raised = ""
           /\ last'.value.status = "valid"
           /\ last'.value.missing_count = 0
           /\ last'.value.missing_files = << >>
           /\ last'.value.project_root = last.value.project_root
           /\ Range(_expected_files(Rebuilt)) \subseteq Range(last.value.file_list)]_vars

C1_Witness ==
    /\ last.op = "validate_project"
    /\ last.raised = ""
    /\ last.value.status = "valid"
    /\ last.value.missing_count = 0
    /\ last.value.total_expected > 0

\* C2: create_project returns a status-error result, and changes neither
\* files nor directories, when use_current_dir is set and the target
\* directory does not exist, when use_current_dir is set and the target
\* directory is not empty, and when use_current_dir is unset and the project
\* root exists; in every other case it goes on to the generation phases.
C2_PreconditionFailures ==
    [][\A l \in Locations :
        LET config == ConfigAt(wanted, l)
            root == ProjectGenerator(config).project_root
            failure ==
                \/ config.use_current_dir /\ ~is_dir(Disk, root)
                \/ config.use_current_dir /\ is_dir(Disk, root) /\ has_entries(Disk, root)
                \/ ~config.use_current_dir /\ exists(Disk, root)
        IN  create_project(config)
            => IF failure
               THEN /\ last'.op = "create_project"
                    /\ last'.raised = ""
                    /\ last'.value.status = "error"
                    /\ files' = files /\ dirs' = dirs /\ gen' = << >>
               ELSE gen' # << >>]_vars


C2_Witness ==
    /\ last.op = "create_project"
    /\ last.raised = ""
    /\ last.value.status = "error"
    /\ last.value.message = "Directory is not empty"

\* C3: the manifest is the last file generate writes: while a write of the
\* call in flight remains, and after a write has faulted, the project root
\* holds no manifest; where the manifest exists, every other step of the
\* plan has been carried out.
C3_ManifestLast ==
    /\ (gen # << >> /\ gen[1].pc <= Len(GenerateSteps(gen[1].generator, 1)))
        => ~has_manifest(Disk, gen[1].generator.project_root)
    /\ (last.op = "create_project" /\ last.raised = "OSError")
        => ~has_manifest(Disk, Target)
    /\ has_manifest(Disk, Target)
        => \A step \in Range(GenerateSteps(Rebuilt, 1)) :
              IF step.op = "mkdir" THEN is_dir(Disk, step.path) ELSE is_file(Disk, step.path)

\* generate faulted at its last write: everything but the manifest is there
C3_Witness ==
    /\ last.op = "create_project"
    /\ last.raised = "OSError"
    /\ is_file(Disk, Target \o <<"CLAUDE.md">>)
    /\ ~has_manifest(Disk, Target)


\* The components list of the manifest held by the files f
ComponentsOf(f) == json_loads(f[ManifestPath]).components

Entry(type, name) == [type |-> type, name |-> name]

\* The directories that hold app/main.py: where generation put the API tree
ApiRootsOnDisk == {d \in dirs : is_file(Disk, d \o <<"app", "main.py">>)}

ModelFile(root, name) == root \o <<"app", "models", Str(lower(name)) \o ".py">>
SchemaFile(root, name) == root \o <<"app", "schemas", Str(lower(name)) \o ".py">>
RouterFile(root, name) == root \o <<"app", "routers", Str(lower(name)) \o ".py">>

AddReturned(status) ==
    /\ last'.op = "add_component"
    /\ last'.raised = ""
    /\ last'.value.status = status

\* The call before this one was a successful db_model call for this name
AfterModelAdded(config) ==
    /\ last.op = "add_component"
    /\ last.raised = ""
    /\ last.value.status = "success"
    /\ last.value.component = "db_model"
    /\ last.value.name = lower(config.name)

SecondModelCallFails(config) ==
    AfterModelAdded(config)
    => /\ AddReturned("error")
       /\ ComponentsOf(files') = ComponentsOf(files)
       /\ Cardinality({i \in DOMAIN ComponentsOf(files') :
                         ComponentsOf(files')[i] = Entry("db_model", lower(config.name))}) = 1

FirstModelCallSucceeds(config) ==
    /\ AddReturned("success")
    /\ ComponentsOf(files') = << Entry("db_model", lower(config.name)) >>

\* C4 as stated: on a freshly generated project the first db_model call for a
\* name succeeds and appends one entry, the second call for the same name
\* returns an error and leaves the components list as it was.
C4_Original ==
    [][\A config \in ComponentConfigs :
        (config.component = "db_model" /\ add_component(config))
        => /\ GenerateSucceeded => FirstModelCallSucceeds(config)
           /\ SecondModelCallFails(config)]_vars

\* The model files the scaffold itself generates
ScaffoldModels == {"__init__", "base", "user"}

\* C4 amended: as C4, for a name that is not the name of a model file the
\* scaffold generated (__init__, base, user).
C4_ModelTwice ==
    [][\A config \in ComponentConfigs :
        (config.component = "db_model" /\ add_component(config))
        => /\ (GenerateSucceeded /\ Str(lower(config.name)) \notin ScaffoldModels)
               => FirstModelCallSucceeds(config)
           /\ SecondModelCallFails(config)]_vars

\* The second db_model call for widget has returned its error
C4_Witness ==
    /\ last.op = "add_component"
    /\ last.raised = ""
    /\ last.value.status = "error"
    /\ last.value.message = "Model already exists"
    /\ has_manifest(Disk, Target)
    /\ ComponentsOf(files) = << Entry("db_model", lower(Widget)) >>

\* C5: a successful api_router call with non-empty fields, where no model,
\* schema or router of the lower-cased name exists, creates the model, the
\* schema and the router file under the API root and appends
\* {db_model, name} then {api_router, name} to the manifest's components.
C5_RouterWithFields ==
    [][\A root \in ApiRootsOnDisk : \A config \in ComponentConfigs :
        (/\ config.component = "api_router"
         /\ fields_or_empty(config.fields) # << >>
         /\ has_manifest(Disk, Target)
         /\ ~exists(Disk, ModelFile(root, config.name))
         /\ ~exists(Disk, SchemaFile(root, config.name))
         /\ ~exists(Disk, RouterFile(root, config.name))
         /\ add_component(config))
        => /\ AddReturned("success")
           /\ {ModelFile(root, config.name), SchemaFile(root, config.name), RouterFile(root, config.name)}
                \subseteq DOMAIN files'
           /\ (DOMAIN files') \ (DOMAIN files)
                = {ModelFile(root, config.name), SchemaFile(root, config.name), RouterFile(root, config.name)}
           /\ files'[ModelFile(root, config.name)].kind = "model"
           /\ files'[SchemaFile(root, config.name)].kind = "schema"
           /\ files'[RouterFile(root, config.name)].kind = "router"
           /\ ComponentsOf(files')
                = ComponentsOf(files) \o << Entry("db_model", lower(config.name)),
                                            Entry("api_router", lower(config.name)) >>]_vars

C5_Witness ==
    /\ last.op = "add_component"
    /\ last.raised = ""
    /\ last.value.status = "success"
    /\ last.value.component = "api_router"
    /\ Len(last.value.files_created) = 3
    /\ ComponentsOf(files) = << Entry("db_model", lower(Widget)),
                                Entry("api_router", lower(Widget)) >>

\* C6: with no manifest in the project root, add_component, validate_project
\* and get_project_info return a {status: error, message} result and raise
\* nothing.
C6_ManifestMissingIsResult ==
    (/\ last.op \in {"add_component", "validate_project", "get_project_info"}
     /\ ~has_manifest(Disk, Target))
    => /\ last.raised = ""
       /\ "status" \in DOMAIN last.value
       /\ last.value.status = "error"
       /\ "message" \in DOMAIN last.value

\* C7: every tool returns a result that carries a status field, whatever
\* the input and the disk; none raises.
C7_EveryResultHasStatus ==
    last.op # "none" => (last.raised = "" /\ "status" \in DOMAIN last.value)

UnimplementedKinds == ComponentKinds \ {"api_router", "db_model"}

C9_NeverOverwrites ==
    [][/\ last'.op = "add_component"
          => \A p \in (DOMAIN files) \ {ManifestPath} :
                p \in DOMAIN files' /\ files'[p] = files[p]
       /\ \A root \in ApiRootsOnDisk : \A config \in ComponentConfigs :
           /\ (/\ has_manifest(Disk, Target)
               /\ config.component = "db_model"
               /\ exists(Disk, ModelFile(root, config.name))
               /\ add_component(config))
               => (AddReturned("error") /\ last'.value.message = "Model already exists")
           /\ (/\ has_manifest(Disk, Target)
               /\ config.component = "api_router"
               /\ exists(Disk, RouterFile(root, config.name))
               /\ add_component(config))
               => (/\ AddReturned("error")
                   /\ last'.value.message \in {"Model already exists",
                                               "Router already exists"})
           /\ (/\ has_manifest(Disk, Target)
               /\ exists(Disk, SchemaFile(root, config.name))
               /\ \/ /\ config.component = "db_model"
                     /\ ~exists(Disk, ModelFile(root, config.name))
                  \/ /\ config.component = "api_router"
                     /\ ~exists(Disk, RouterFile(root, config.name))
                     /\ \/ fields_or_empty(config.fields) = << >>
                        \/ ~exists(Disk, ModelFile(root, config.name))
               /\ add_component(config))
               => (/\ AddReturned("success")
                   /\ files'[SchemaFile(root, config.name)]
                        = files[SchemaFile(root, config.name)])]_vars

\* A db_model call has succeeded on a project that already held the schema
\* (written empty-bodied by an earlier api_router call): the schema is kept
C9_Witness ==
    /\ last.op = "add_component"
    /\ last.raised = ""
    /\ last.value.status = "success"
    /\ last.value.component = "db_model"
    /\ \E root \in ApiRootsOnDisk :
        /\ is_file(Disk, ModelFile(root, Widget))
        /\ files[ModelFile(root, Widget)].fields # << >>
        /\ files[SchemaFile(root, Widget)].fields = << >>

\* The directories that hold a .gitignore: the roots of the generated repos
RepoRoots == {d \in dirs : is_file(Disk, d \o <<".gitignore">>)}

\* C10: is_multi_repo is (frontend_type = react); a generated project has the
\* two roots {name}-api and {name}-frontend iff it is multi-repo, else the one
\* root that is the project root; generation, the validator's expected paths
\* and add_component agree on the API root.
C10_Topology ==
    (gen = << >> /\ has_manifest(Disk, Target))
    => LET g == Rebuilt
           name == Str(g.config.name)
       IN  /\ is_multi_repo(g.config) = (wanted.frontend_type = "react")
           /\ Cardinality(RepoRoots) = IF is_multi_repo(g.config) THEN 2 ELSE 1
           /\ RepoRoots = IF is_multi_repo(g.config)
                          THEN {Target \o <<name \o "-api">>, Target \o <<name \o "-frontend">>}
                          ELSE {Target}
           /\ ApiRootsOnDisk = {_api_root(g)}
           /\ _api_root(g) \in RepoRoots
           /\ relative_to(_api_root(g) \o <<"app", "main.py">>, Target)
                \in Range(_expected_files(g))
           /\ relative_to(_api_root(g) \o <<".gitignore">>, Target)
                \in Range(_expected_files(g))

C10_Witness ==
    /\ GenerateSucceeded
    /\ Cardinality(RepoRoots) = 2
    /\ wanted.frontend_type = "react"


\* The relative paths generate writes for a configuration, as a set
PlannedFiles(config) ==
    LET g == ProjectGenerator(config)
        steps == GenerateSteps(g, 1)
    IN  { relative_to(steps[i].path, g.project_root) :
            i \in {j \in DOMAIN steps : steps[j].op # "mkdir"} }

GatingFlags == {"include_auth", "include_alembic", "include_sse"}

FlagCombos == [GatingFlags -> BOOLEAN]

\* config with the three gating flags set as k says
WithFlags(config, k) ==
    [config EXCEPT !.include_auth = k["include_auth"],
                   !.include_alembic = k["include_alembic"],
                   !.include_sse = k["include_sse"]]

AllOff == [f \in GatingFlags |-> FALSE]

\* The files flag f adds when the other two flags are as k says
AddedBy(config, f, k) ==
    PlannedFiles(WithFlags(config, [k EXCEPT ![f] = TRUE]))
        \ PlannedFiles(WithFlags(config, [k EXCEPT ![f] = FALSE]))

\* C11: with the other fields as generated, each of include_auth,
\* include_alembic and include_sse adds a non-empty set of files to the file
\* list that is the same whatever the other two flags are; the three sets are
\* pairwise disjoint; and the file set with all three off is a strict subset
\* of the file set with any of them on.
C11_FlagSetsAdditive ==
    GenerateSucceeded
    => LET config == Rebuilt.config
           Off == PlannedFiles(WithFlags(config, AllOff))
       IN  /\ Range(last.value.file_list) = PlannedFiles(config)
           /\ \A f \in GatingFlags :
                /\ AddedBy(config, f, AllOff) # {}
                /\ \A k \in FlagCombos : AddedBy(config, f, k) = AddedBy(config, f, AllOff)
           /\ \A f1, f2 \in GatingFlags :
                f1 # f2 => AddedBy(config, f1, AllOff) \cap AddedBy(config, f2, AllOff) = {}
           /\ \A k \in FlagCombos :
                /\ PlannedFiles(WithFlags(config, k))
                     = Off \cup UNION {AddedBy(config, f, AllOff) : f \in {x \in GatingFlags : k[x]}}
                /\ k # AllOff
                     => (Off \subseteq PlannedFiles(WithFlags(config, k))
                         /\ Off # PlannedFiles(WithFlags(config, k)))

\* generate has succeeded with the three flags on: auth, alembic and SSE
\* files are all in the file list
C11_Witness ==
    /\ GenerateSucceeded
    /\ wanted.include_auth /\ wanted.include_alembic /\ wanted.include_sse
    /\ \E i \in DOMAIN last.value.file_list : last.value.file_list[i][Len(last.value.file_list[i])] = "jwt.py"
    /\ \E i \in DOMAIN last.value.file_list : last.value.file_list[i][Len(last.value.file_list[i])] = "sse.py"
    /\ \E i \in DOMAIN last.value.file_list : last.value.file_list[i][Len(last.value.file_list[i])] = "alembic.ini"


\* The scalar keys of the manifest
ScalarFields ==
    {"project_name", "project_type", "frontend_type", "description", "db_name",
     "include_auth", "include_alembic", "api_port", "frontend_port", "use_current_dir",
     "include_tdd", "include_redis", "include_sse"}

\* The keys of the manifest that echo a field of the request under its name
EchoedFields == ScalarFields \ {"project_name", "db_name", "use_current_dir"}

\* C12: the config that get_project_info returns is the manifest generation
\* wrote; rebuilding a ProjectConfig from it as from_existing does and
\* serialising that with the manifest writer gives the same value for every
\* scalar key, also when db_name was derived from the name.
C12_ManifestRoundTrip ==
    (last.op = "get_project_info" /\ last.raised = "")
    => LET m == last.value.config
           again == ScaffoldMeta(from_existing(m, Target).config, m.created_at)
       IN  /\ m = json_loads(files[ManifestPath])
           /\ \A f \in ScalarFields : again[f] = m[f]
           /\ \A f \in EchoedFields : m[f] = wanted[f]
           /\ m.db_name = IF wanted.db_name = None
                          THEN replace(m.project_name, "-", "_")
                          ELSE wanted.db_name[1]

\* get_project_info has returned the manifest of a project whose db_name
\* was derived from the name my-app
C12_Witness ==
    /\ last.op = "get_project_info"
    /\ last.raised = ""
    /\ wanted.db_name = None
    /\ last.value.config.project_name = MyApp
    /\ last.value.config.db_name = <<"m", "y", "_", "a", "p", "p">>


\* C13: the validator's expected paths are exactly the paths a successful
\* generate recorded in its file list.
C13_ExpectedIsGenerated ==
    GenerateSucceeded
    => Range(_expected_files(Rebuilt)) = Range(last.value.file_list)

\* A generated project is on disk and no generate call is in flight
Generated == gen = << >> /\ has_manifest(Disk, Target)

\* p holds the components a, b next to each other
HasPair(p, a, b) == \E i \in 1..(Len(p) - 1) : p[i] = a /\ p[i + 1] = b

WorkflowFiles == {p \in DOMAIN files : HasPair(p, ".github", "workflows")}

FilesNamed(leaf) == {p \in DOMAIN files : p[Len(p)] = leaf}

\* C14: of a generated project, with project_type work the workflow files
\* are ci.yml under the API root and, exactly when the project is multi-repo,
\* ci.yml and deploy.yml under the frontend root, and there is no render.yaml;
\* with project_type personal the one render.yaml is at the project root and
\* no file lies under a .github/workflows.
C14_DeployArtefacts ==
    Generated
    => LET g == Rebuilt
           api_workflows == _api_root(g) \o <<".github", "workflows">>
           fe_workflows == _frontend_root(g) \o <<".github", "workflows">>
       IN  IF wanted.project_type = "work"
           THEN /\ is_file(Disk, api_workflows \o <<"ci.yml">>)
                /\ is_multi_repo(g.config)
                     <=> (/\ is_file(Disk, fe_workflows \o <<"ci.yml">>)
                          /\ is_file(Disk, fe_workflows \o <<"deploy.yml">>))
                /\ WorkflowFiles
                     = {api_workflows \o <<"ci.yml">>}
                       \cup (IF is_multi_repo(g.config)
                             THEN {fe_workflows \o <<"ci.yml">>, fe_workflows \o <<"deploy.yml">>}
                             ELSE {})
                /\ FilesNamed("render.yaml") = {}
           ELSE /\ FilesNamed("render.yaml") = {Target \o <<"render.yaml">>}
                /\ WorkflowFiles = {}
                /\ \A d \in dirs : ~HasPair(d, ".github", "workflows")

\* A multi-repo work project has its three workflow files
C14_Witness ==
    /\ Generated
    /\ wanted.project_type = "work"
    /\ wanted.frontend_type = "react"
    /\ Cardinality(WorkflowFiles) = 3

\* C15: of a generated project, with frontend_type react the project root
\* holds the directories {name}-api and {name}-frontend, each with its own
\* .gitignore, and no app/templates path and no app/routers/pages.py exists;
\* with frontend_type htmx app/templates/base.html and app/routers/pages.py
\* are in the API tree, the one .gitignore is at the project root and there
\* is no {name}-frontend directory.
C15_FrontendArtefacts ==
    Generated
    => LET name == Str(json_loads(files[ManifestPath]).project_name)
           api_dir == Target \o <<name \o "-api">>
           fe_dir == Target \o <<name \o "-frontend">>
       IN  IF wanted.frontend_type = "react"
           THEN /\ is_dir(Disk, api_dir) /\ is_dir(Disk, fe_dir)
                /\ is_file(Disk, api_dir \o <<".gitignore">>)
                /\ is_file(Disk, fe_dir \o <<".gitignore">>)
                /\ \A p \in (DOMAIN files) \cup dirs :
                     /\ ~HasPair(p, "app", "templates")
                     /\ ~(HasPair(p, "app", "routers") /\ p[Len(p)] = "pages.py")
           ELSE /\ is_file(Disk, Target \o <<"app", "templates", "base.html">>)
                /\ is_file(Disk, Target \o <<"app", "routers", "pages.py">>)
                /\ ApiRootsOnDisk = {Target}
                /\ FilesNamed(".gitignore") = {Target \o <<".gitignore">>}
                /\ ~exists(Disk, fe_dir)

\* A React project is on disk, with its two sub-roots
C15_Witness ==
    /\ Generated
    /\ wanted.frontend_type = "react"
    /\ Cardinality(FilesNamed(".gitignore")) = 2
    /\ FilesNamed("pages.py") = {}

\* The paths recorded for the first n steps of a step list, in order
RecordedBy(g, steps, n) ==
    LET done == SelectSeq(SubSeq(steps, 1, n), LAMBDA st : st.op # "mkdir")
    IN  [i \in 1..Len(done) |-> relative_to(done[i].path, g.project_root)]

\* C16: while generate runs, the recorded list is the paths of the writes
\* done so far, in write order; in the success result files_created is the
\* length of file_list, file_list has no duplicate, every listed path is a
\* file on disk, every file under the project root is listed, and the
\* manifest is the last element.
C16_WritesRecorded ==
    /\ gen # << >>
         => gen[1].created
              = RecordedBy(gen[1].generator, GenerateSteps(gen[1].generator, 1), gen[1].pc - 1)
    /\ GenerateSucceeded
         => LET file_list == last.value.file_list
            IN  /\ last.value.files_created = Len(file_list)
                /\ Cardinality(Range(file_list)) = Len(file_list)
                /\ \A p \in Range(file_list) : is_file(Disk, Target \o p)
                /\ \A q \in DOMAIN files :
                     IsPrefix(Target, q) => relative_to(q, Target) \in Range(file_list)
                /\ file_list # << >>
                /\ file_list[Len(file_list)] = <<SCAFFOLD_METADATA_FILE>>

\* generate has returned a file list that holds an empty file it created
C16_Witness ==
    /\ GenerateSucceeded
    /\ last.value.files_created > 1
    /\ \E p \in Range(last.value.file_list) :
         /\ p[Len(p)] = "__init__.py"
         /\ files[Target \o p].kind = "empty"


\* C17: a validate_project call on a root that a faulted generate left
\* partially populated, without a manifest, returns a result with status
\* invalid and raises nothing.
C17_PartialIsInvalid ==
    [][(/\ last.op = "create_project"
        /\ last.raised = "OSError"
        /\ has_entries(Disk, Target)
        /\ ~has_manifest(Disk, Target)
        /\ last'.op = "validate_project")
        => (last'.raised = "" /\ last'.value.status = "invalid")]_vars

\* C18: an api_router call with non-empty fields whose model file exists
\* returns the model step's error, writes no file (no router file) and
\* leaves the manifest's components as they were (no api_router entry).
C18_ModelErrorPropagates ==
    [][\A root \in ApiRootsOnDisk : \A config \in ComponentConfigs :
        (/\ config.component = "api_router"
         /\ fields_or_empty(config.fields) # << >>
         /\ has_manifest(Disk, Target)
         /\ exists(Disk, ModelFile(root, config.name))
         /\ add_component(config))
        => /\ AddReturned("error")
           /\ last'.value.message = "Model already exists"
           /\ files' = files
           /\ dirs' = dirs
           /\ ComponentsOf(files') = ComponentsOf(files)]_vars

\* The model step's error has been returned on a project that holds the
\* model widget and neither its router nor an api_router entry for it
C18_Witness ==
    /\ last.op = "add_component"
    /\ last.raised = ""
    /\ last.value.status = "error"
    /\ last.value.message = "Model already exists"
    /\ has_manifest(Disk, Target)
    /\ \E root \in ApiRootsOnDisk :
         /\ is_file(Disk, ModelFile(root, Widget))
         /\ ~exists(Disk, RouterFile(root, Widget))
    /\ Entry("api_router", lower(Widget)) \notin Range(ComponentsOf(files))

\* C20: the manifest appears with an empty components list, written by a
\* generate call; from then on it stays on disk, each step leaves its
\* components list a prefix of the new list, and every other key, created_at
\* included, keeps its value.
C20_ManifestLifecycle ==
    [][/\ (~has_manifest(Disk, Target) /\ ManifestPath \in DOMAIN files')
            => (gen # << >> /\ ComponentsOf(files') = << >>)
       /\ has_manifest(Disk, Target)
            => /\ ManifestPath \in DOMAIN files'
               /\ IsPrefix(ComponentsOf(files), ComponentsOf(files'))
               /\ [json_loads(files'[ManifestPath]) EXCEPT !.components = ComponentsOf(files)]
                    = json_loads(files[ManifestPath])]_vars

\* Two add_component calls have appended to the manifest
C20_Witness ==
    /\ has_manifest(Disk, Target)
    /\ Len(ComponentsOf(files)) >= 2
    /\ last.op = "add_component"
    /\ last.raised = ""
    /\ last.value.status = "success"


\* C19: a validate_project or get_project_info call that returns leaves
\* every file and directory as it was; validate's total_expected is the
\* length of the expected-file list of the configuration rebuilt from the
\* manifest, whichever files exist; its missing_files are the expected paths
\* that do not exist, its status is valid iff missing_files is empty, and
\* missing_count is the length of missing_files.
C19_PureReads ==
    [][(last'.op \in {"validate_project", "get_project_info"} /\ last'.raised = "")
        => /\ files' = files
           /\ dirs' = dirs
           /\ last'.op = "validate_project"
                => LET v == last'.value
                       expected == _expected_files(Rebuilt)
                   IN  /\ v.total_expected = Len(expected)
                       /\ Range(v.missing_files)
                            = {f \in Range(expected) : ~exists(Disk, Target \o f)}
                       /\ v.status \in {"valid", "invalid"}
                       /\ (v.status = "valid") <=> (v.missing_files = << >>)
                       /\ v.missing_count = Len(v.missing_files)]_vars

\* validate_project has reported the one expected file the owner deleted
C19_Witness ==
    /\ last.op = "validate_project"
    /\ last.raised = ""
    /\ last.value.status = "invalid"
    /\ last.value.missing_count = 1
    /\ last.value.total_expected > 1
    /\ ~exists(Disk, Target \o last.value.missing_files[1])


\* C21: a successful api_router call without fields writes the router file,
\* writes an empty-bodied schema file iff no schema file of the name exists
\* (an existing one keeps its content), writes no model file, and appends the
\* one entry {api_router, name} to the manifest's components.
C21_RouterWithoutFields ==
    [][\A root \in ApiRootsOnDisk : \A config \in ComponentConfigs :
        (/\ config.component = "api_router"
         /\ fields_or_empty(config.fields) = << >>
         /\ has_manifest(Disk, Target)
         /\ add_component(config)
         /\ AddReturned("success"))
        => LET router == RouterFile(root, config.name)
               schema == SchemaFile(root, config.name)
               model == ModelFile(root, config.name)
           IN  /\ router \notin DOMAIN files
               /\ router \in DOMAIN files'
               /\ files'[router].kind = "router"
               /\ IF schema \in DOMAIN files
                  THEN files'[schema] = files[schema]
                  ELSE /\ schema \in DOMAIN files'
                       /\ files'[schema].kind = "schema"
                       /\ files'[schema].fields = << >>
               /\ (DOMAIN files') \ (DOMAIN files)
                    = {router} \cup (IF schema \in DOMAIN files THEN {} ELSE {schema})
               /\ (model \in DOMAIN files') = (model \in DOMAIN files)
               /\ ComponentsOf(files')
                    = ComponentsOf(files) \o << Entry("api_router", lower(config.name)) >>]_vars

\* A router without fields has been added to a fresh project: router and
\* schema written, no model, one entry
C21_Witness ==
    /\ last.op = "add_component"
    /\ last.raised = ""
    /\ last.value.status = "success"
    /\ last.value.component = "api_router"
    /\ Len(last.value.files_created) = 2
    /\ ComponentsOf(files) = << Entry("api_router", lower(Widget)) >>
    /\ \E root \in ApiRootsOnDisk :
         /\ files[SchemaFile(root, Widget)].fields = << >>
         /\ ~exists(Disk, ModelFile(root, Widget))

\* C22: an add_component call that returns status error creates no file and
\* leaves the manifest's components list as it was.
C22_ErrorLeavesProjectUnchanged ==
    [][(/\ last'.op = "add_component"
        /\ last'.raised = ""
        /\ last'.value.status = "error"
        /\ has_manifest(Disk, Target))
        => /\ DOMAIN files' = DOMAIN files
           /\ ComponentsOf(files') = ComponentsOf(files)]_vars


\* C23: whenever a generated project is on disk, whatever add_component
\* calls were made on it, every path of the expected-file list exists:
\* validate's result is valid with missing_count 0, and that is the result
\* a validate_project call just made returned; no add_component step removes
\* or replaces a file of the expected-file list (the manifest aside).
C23_ExtensionKeepsValid ==
    [][(Generated /\ last'.op \in {"add_component", "validate_project"})
        => /\ \A f \in Range(_expected_files(Rebuilt)) :
                /\ (Target \o f) \in DOMAIN files'
                /\ f # <<SCAFFOLD_METADATA_FILE>> => files'[Target \o f] = files[Target \o f]
           /\ validate(World(files', dirs', << >>), Rebuilt).status = "valid"
           /\ validate(World(files', dirs', << >>), Rebuilt).missing_count = 0
           /\ last'.op = "validate_project"
                => (last'.raised = "" /\ last'.value = validate(Disk, Rebuilt))]_vars

\* validate_project has returned valid on a project extended three times
C23_Witness ==
    /\ last.op = "validate_project"
    /\ last.raised = ""
    /\ last.value.status = "valid"
    /\ last.value.missing_count = 0
    /\ has_manifest(Disk, Target)
    /\ Len(ComponentsOf(files)) >= 3

\* C24: in a generated project that only add_component calls have touched,
\* the components list has no duplicate entry, every {db_model, n} entry has
\* its app/models/n.py and app/schemas/n.py under the API root, and every
\* {api_router, n} entry has its app/routers/n.py and app/schemas/n.py.
C24_ComponentsHaveFiles ==
    Generated
    => LET components == ComponentsOf(files)
           api_root == _api_root(Rebuilt)
           file(dir, n) == api_root \o <<"app", dir, Str(n) \o ".py">>
       IN  /\ Cardinality(Range(components)) = Len(components)
           /\ \A e \in Range(components) :
                /\ e.type \in {"db_model", "api_router"}
                /\ is_file(Disk, file("schemas", e.name))
                /\ e.type = "db_model" => is_file(Disk, file("models", e.name))
                /\ e.type = "api_router" => is_file(Disk, file("routers", e.name))

\* Model and router of widget and a router of user are recorded
C24_Witness ==
    /\ Generated
    /\ {Entry("db_model", lower(Widget)), Entry("api_router", lower(Widget)),
        Entry("api_router", lower(User))} \subseteq Range(ComponentsOf(files))

\* C25: once a project has been generated at a root, every create_project
\* call that resolves to that root, with use_current_dir or without, returns
\* an error result and leaves files, directories and the manifest (its
\* components and created_at included) as they were.
C25_GenerateOnce ==
    [][\A l \in Locations :
        (has_manifest(Disk, Target) /\ create_project(ConfigAt(wanted, l)))
        => /\ last'.op = "create_project"
           /\ last'.raised = ""
           /\ last'.value.status = "error"
           /\ gen' = << >>
           /\ files' = files
           /\ dirs' = dirs]_vars

\* A second create_project on an extended project has been refused
C25_Witness ==
    /\ last.op = "create_project"
    /\ last.raised = ""
    /\ last.value.status = "error"
    /\ last.value.message \in {"Directory is not empty", "Directory already exists"}
    /\ has_manifest(Disk, Target)
    /\ Len(ComponentsOf(files)) >= 1

\* The two servers' calls have both returned success
BothAdded ==
    \A c \in Callers :
        /\ adding[c].pc = "done"
        /\ adding[c].result # None
        /\ adding[c].result[1].status = "success"

AddedNames == { adding[c].result[1].name : c \in Callers }

\* C26: when two add_component calls on one root have both returned success
\* and neither ran while the other was in flight, they added different
\* names and the manifest holds both entries; so a lost entry, or two
\* successful calls that wrote the same model file, needs overlapping calls.
\* With overlapping calls both outcomes are reachable (C26_Witness,
\* C26_SameNameBothWrite).
C26_RaceNeedsOverlap ==
    (BothAdded /\ \E c \in Callers : ~adding[c].overlapped)
    => /\ Cardinality(AddedNames) = Cardinality(Callers)
       /\ \A n \in AddedNames : Entry("db_model", n) \in Range(ComponentsOf(files))
       /\ Len(ComponentsOf(files)) = Cardinality(Callers)

\* Lost update: two overlapping calls added widget and gadget, both
\* returned success, and the manifest lists one of the two
C26_Witness ==
    /\ BothAdded
    /\ \A c \in Callers : adding[c].overlapped
    /\ AddedNames = {lower(Widget), lower(Gadget)}
    /\ is_file(Disk, ModelFile(Target, Widget))
    /\ is_file(Disk, ModelFile(Target, Gadget))
    /\ Len(ComponentsOf(files)) = 1

\* Double write: two overlapping calls for widget both passed the existence
\* check, both wrote app/models/widget.py and both returned success
C26_SameNameBothWrite ==
    /\ BothAdded
    /\ \A c \in Callers : adding[c].overlapped
    /\ AddedNames = {lower(Widget)}
    /\ \A c \in Callers :
        relative_to(ModelFile(Target, Widget), Target) \in Range(adding[c].created)

====
